---- MODULE Spec2Model ----
(***************************************************************************)
(* Model of the artist-similarity graph of app.py: build_graph builds an   *)
(* undirected graph from the ratings table (df) and the similarity table   *)
(* (df_liked_similar); calculate_dacus_number queries the hop distance of  *)
(* an artist to the reference artist "Lucy Dacus".                         *)
(*                                                                         *)
(* A string is a sequence of symbols.  A symbol is either a comma, a       *)
(* space, or a word: a run of characters that holds no comma and neither   *)
(* starts nor ends with whitespace ("Lucy Dacus" is one word).  A missing  *)
(* cell (pandas NaN) is the one value NaN, which is not a string.          *)
(***************************************************************************)
EXTENDS Integers, Sequences, FiniteSets, TLC

VARIABLES df, df_liked_similar, include_nmf, G, pc, artist_name, result,
          csv, cache, as_of, search_term, message, subgraph, fig,
          feedback, sessions, nuked, archive, event

\* the files on disk, the entries of st.cache_data, the files as last loaded
store == <<csv, cache, as_of>>

\* what one run of dacus_game_page reads and shows, besides artist_name and result
page == <<search_term, message, subgraph, fig>>

\* the feedback stores, the visitor sessions writing to them, the nuked
\* albums, the archive navigation, and the last handler that ran
site == <<feedback, sessions, nuked, archive, event>>

vars == <<df, df_liked_similar, include_nmf, G, pc, artist_name, result,
          csv, cache, as_of, search_term, message, subgraph, fig,
          feedback, sessions, nuked, archive, event>>

(***************************************************************************)
(* Bounds of the model.                                                    *)
(***************************************************************************)
MaxSimRows == 2
MaxRatingRows == 1
MaxTagRatingRows == 2
MaxTagSimRows == 1

(***************************************************************************)
(* Strings and cells.                                                      *)
(***************************************************************************)
Comma == ","
Space == " "
NaN == <<"<NaN>">>
Str(w) == <<w>>
EmptyStr == <<>>
LucyDacus == Str("Lucy Dacus")

\* isinstance(x, str)
IsStr(x) == x # NaN

\* str.strip(): drop leading and trailing whitespace
RECURSIVE LStrip(_)
LStrip(s) == IF s # <<>> /\ Head(s) = Space THEN LStrip(Tail(s)) ELSE s

RECURSIVE RStrip(_)
RStrip(s) ==
    IF s # <<>> /\ s[Len(s)] = Space THEN RStrip(SubSeq(s, 1, Len(s) - 1)) ELSE s

Strip(s) == RStrip(LStrip(s))

\* str.split(sep): cut at every leftmost, non-overlapping occurrence of sep
RECURSIVE Split(_, _)
Split(s, sep) ==
    LET hits == {i \in 1..(Len(s) - Len(sep) + 1) :
                    SubSeq(s, i, i + Len(sep) - 1) = sep}
    IN  IF hits = {}
        THEN <<s>>
        ELSE LET i == CHOOSE h \in hits : \A o \in hits : h <= o
             IN  <<SubSeq(s, 1, i - 1)>>
                    \o Split(SubSeq(s, i + Len(sep), Len(s)), sep)

Range(f) == {f[i] : i \in DOMAIN f}

(***************************************************************************)
(* Tables.  A table is a set of column names and a sequence of rows; a row *)
(* maps every column of its table to a cell (a string or NaN).             *)
(***************************************************************************)
Table(columns, rows) == [columns |-> columns, rows |-> rows]

\* the dtype pandas gives a column (pd.read_csv, and the DataFrame
\* constructor alike): float64 when the column has cells and all of them are
\* missing, object when it holds a string or has no rows
Dtype(table, c) ==
    IF table.rows # <<>> /\ \A i \in DOMAIN table.rows : table.rows[i][c] = NaN
    THEN "float64"
    ELSE "object"

\* Series.str: the accessor exists for object columns only
StrAccessorFails(table, c) == Dtype(table, c) # "object"

\* df[c].str.split(',').explode().str.strip(), as a set: a missing cell
\* stays missing, a string yields its pieces, each stripped
SplitExplodeStrip(cells) ==
    UNION {IF IsStr(cells[i])
           THEN {Strip(piece) : piece \in Range(Split(cells[i], <<Comma>>))}
           ELSE {NaN} : i \in DOMAIN cells}

\* Series.dropna()
RECURSIVE DropNa(_)
DropNa(cells) ==
    IF cells = <<>> THEN <<>>
    ELSE IF Head(cells) = NaN THEN DropNa(Tail(cells))
    ELSE <<Head(cells)>> \o DropNa(Tail(cells))

\* df[df['playlist_origin'].isin(origins)]['Artist Name(s)']
RECURSIVE ArtistNamesOfOrigin(_, _)
ArtistNamesOfOrigin(rows, origins) ==
    IF rows = <<>> THEN <<>>
    ELSE (IF Head(rows)["playlist_origin"] \in origins
          THEN <<Head(rows)["Artist Name(s)"]>> ELSE <<>>)
         \o ArtistNamesOfOrigin(Tail(rows), origins)

Column(table, c) == [i \in DOMAIN table.rows |-> table.rows[i][c]]

(***************************************************************************)
(* nx.Graph: the nodes, the 'type' attribute of each node (NoType for a    *)
(* node that has none) and the undirected edges {u, v}.                    *)
(***************************************************************************)
NoType == "(no type)"
EmptyGraph == [nodes |-> {}, type |-> [n \in {} |-> NoType], edges |-> {}]

\* the attribute set on new nodes only: a node keeps its first tag
add_nodes_from_keep(g, names, t) ==
    [nodes |-> g.nodes \cup names,
     type  |-> [n \in g.nodes \cup names |-> IF n \in g.nodes THEN g.type[n] ELSE t],
     edges |-> g.edges]

\* G.add_nodes_from(names, type=t): new nodes are added, and the attribute
\* is set on every named node, old or new
add_nodes_from(g, names, t) ==
    [nodes |-> g.nodes \cup names,
     type  |-> [n \in g.nodes \cup names |-> IF n \in names THEN t ELSE g.type[n]],
     edges |-> g.edges]

\* G.add_edge(u, v, weight=1.0): missing endpoints become nodes without a
\* 'type' attribute
add_edge(g, u, v) ==
    [nodes |-> g.nodes \cup {u, v},
     type  |-> [n \in g.nodes \cup {u, v} |->
                    IF n \in g.nodes THEN g.type[n] ELSE NoType],
     edges |-> g.edges \cup {{u, v}}]

(***************************************************************************)
(* build_graph(df, df_liked_similar, include_nmf)                          *)
(***************************************************************************)
df_liked == Str("df_liked")
df_fav_albums == Str("df_fav_albums")
df_nmf == Str("df_nmf")
df_not_liked == Str("df_not_liked")

\* for s in similar: G.add_edge(artist, s, weight=1.0)
RECURSIVE AddEdgesTo(_, _, _)
AddEdgesTo(g, artist, similar) ==
    IF similar = <<>> THEN g
    ELSE AddEdgesTo(add_edge(g, artist, Head(similar)), artist, Tail(similar))

\* the separator of the edge loop: row['Similar Artists'].split(', ')
EdgeSeparator == <<Comma, Space>>

\* for _, row in df_liked_similar.iterrows(): ...
RECURSIVE AddSimilarityEdges(_, _)
AddSimilarityEdges(g, rows) ==
    IF rows = <<>> THEN g
    ELSE LET row == Head(rows)
             g1  == IF IsStr(row["Similar Artists"])
                    THEN AddEdgesTo(g, row["Artist"],
                                    Split(row["Similar Artists"], EdgeSeparator))
                    ELSE g
         IN  AddSimilarityEdges(g1, Tail(rows))

HasRatingColumns(table) ==
    "playlist_origin" \in table.columns /\ "Artist Name(s)" \in table.columns

liked_artists(table) ==
    IF HasRatingColumns(table)
    THEN SplitExplodeStrip(ArtistNamesOfOrigin(table.rows, {df_liked, df_fav_albums}))
    ELSE {}

similar_artists_liked(table) ==
    IF "Similar Artists" \in table.columns
    THEN SplitExplodeStrip(DropNa(Column(table, "Similar Artists")))
    ELSE {}

nmf_artists(table) == SplitExplodeStrip(ArtistNamesOfOrigin(table.rows, {df_nmf}))

not_liked_artists(table) ==
    SplitExplodeStrip(ArtistNamesOfOrigin(table.rows, {df_not_liked}))

\* the .str accessor of an all-missing column raises AttributeError
BuildRaises(ratings, similarity) ==
    \/ HasRatingColumns(ratings) /\ StrAccessorFails(ratings, "Artist Name(s)")
    \/ "Similar Artists" \in similarity.columns
         /\ StrAccessorFails(similarity, "Similar Artists")

\* the reference artist made a node of every graph
build_graph_seeded(ratings, similarity, flag) ==
    LET G0 == add_nodes_from(EmptyGraph, {LucyDacus}, "liked")
        G1 == add_nodes_from(G0, liked_artists(ratings), "liked")
        G2 == add_nodes_from(G1, similar_artists_liked(similarity), "similar_liked")
        G3 == IF "Artist" \in similarity.columns
                 /\ "Similar Artists" \in similarity.columns
              THEN AddSimilarityEdges(G2, similarity.rows)
              ELSE G2
        G4 == IF flag /\ HasRatingColumns(ratings)
              THEN add_nodes_from(
                     add_nodes_from(G3, nmf_artists(ratings), "nmf"),
                     not_liked_artists(ratings), "not_liked")
              ELSE G3
    IN  IF BuildRaises(ratings, similarity)
        THEN [raised |-> "AttributeError", graph |-> EmptyGraph]
        ELSE [raised |-> "", graph |-> G4]

\* the edge loop indented under the include_nmf branch
build_graph_edges_gated(ratings, similarity, flag) ==
    LET G1 == add_nodes_from(EmptyGraph, liked_artists(ratings), "liked")
        G2 == add_nodes_from(G1, similar_artists_liked(similarity), "similar_liked")
        G3 == IF flag /\ "Artist" \in similarity.columns
                 /\ "Similar Artists" \in similarity.columns
              THEN AddSimilarityEdges(G2, similarity.rows)
              ELSE G2
        G4 == IF flag /\ HasRatingColumns(ratings)
              THEN add_nodes_from(
                     add_nodes_from(G3, nmf_artists(ratings), "nmf"),
                     not_liked_artists(ratings), "not_liked")
              ELSE G3
    IN  IF BuildRaises(ratings, similarity)
        THEN [raised |-> "AttributeError", graph |-> EmptyGraph]
        ELSE [raised |-> "", graph |-> G4]

\* every NMF artist joined to every liked artist
build_graph_nmf_linked(ratings, similarity, flag) ==
    LET G1 == add_nodes_from(EmptyGraph, liked_artists(ratings), "liked")
        G2 == add_nodes_from(G1, similar_artists_liked(similarity), "similar_liked")
        G3 == IF "Artist" \in similarity.columns
                 /\ "Similar Artists" \in similarity.columns
              THEN AddSimilarityEdges(G2, similarity.rows)
              ELSE G2
        G4 == IF flag /\ HasRatingColumns(ratings)
              THEN add_nodes_from(
                     add_nodes_from(G3, nmf_artists(ratings), "nmf"),
                     not_liked_artists(ratings), "not_liked")
              ELSE G3
        G5 == IF flag /\ HasRatingColumns(ratings)
              THEN [G4 EXCEPT !.edges = @ \cup {{a, b} : a \in nmf_artists(ratings),
                                                       b \in liked_artists(ratings)}]
              ELSE G4
    IN  IF BuildRaises(ratings, similarity)
        THEN [raised |-> "AttributeError", graph |-> EmptyGraph]
        ELSE [raised |-> "", graph |-> G5]

\* the outcome of build_graph: the graph it returns, or the error it raises
build_graph(ratings, similarity, flag) ==
    LET G1 == add_nodes_from(EmptyGraph, liked_artists(ratings), "liked")
        G2 == add_nodes_from(G1, similar_artists_liked(similarity), "similar_liked")
        G3 == IF "Artist" \in similarity.columns
                 /\ "Similar Artists" \in similarity.columns
              THEN AddSimilarityEdges(G2, similarity.rows)
              ELSE G2
        G4 == IF flag /\ HasRatingColumns(ratings)
              THEN add_nodes_from(
                     add_nodes_from(G3, nmf_artists(ratings), "nmf"),
                     not_liked_artists(ratings), "not_liked")
              ELSE G3
    IN  IF BuildRaises(ratings, similarity)
        THEN [raised |-> "AttributeError", graph |-> EmptyGraph]
        ELSE [raised |-> "", graph |-> G4]

(***************************************************************************)
(* nx.shortest_path(G, source, target): breadth-first search.  The result  *)
(* is the set of outcomes a call can have: which of several shortest paths *)
(* comes back depends on the traversal order and is left open.             *)
(***************************************************************************)
neighbors(g, u) == {v \in g.nodes : {u, v} \in g.edges}

\* the levels of the search: levels[k] holds the nodes k - 1 hops from source
RECURSIVE BfsLevels(_, _, _, _)
BfsLevels(g, frontier, seen, levels) ==
    IF frontier = {} THEN levels
    ELSE LET next == UNION {neighbors(g, u) : u \in frontier} \ seen
         IN  BfsLevels(g, next, seen \cup next, Append(levels, frontier))

\* the paths from the source to node v of level k, along predecessors of
\* the level before
RECURSIVE PathsTo(_, _, _, _)
PathsTo(g, levels, k, v) ==
    IF k = 1 THEN {<<v>>}
    ELSE UNION {{Append(p, v) : p \in PathsTo(g, levels, k - 1, u)} :
                   u \in levels[k - 1] \cap neighbors(g, v)}

\* a search that returns the first path it completes, shortest or not
shortest_path_any(g, source, target) ==
    IF source \notin g.nodes \/ target \notin g.nodes
    THEN {[exc |-> "NodeNotFound", path |-> <<>>]}
    ELSE LET simple == {p \in UNION {[1..n -> g.nodes] : n \in 1..Cardinality(g.nodes)} :
                          /\ p[1] = source /\ p[Len(p)] = target
                          /\ \A i, j \in DOMAIN p : p[i] = p[j] => i = j
                          /\ \A i \in 1..(Len(p) - 1) : {p[i], p[i + 1]} \in g.edges}
         IN  IF simple = {}
             THEN {[exc |-> "NetworkXNoPath", path |-> <<>>]}
             ELSE {[exc |-> "", path |-> p] : p \in simple}

shortest_path(g, source, target) ==
    IF source \notin g.nodes \/ target \notin g.nodes
    THEN {[exc |-> "NodeNotFound", path |-> <<>>]}
    ELSE LET levels == BfsLevels(g, {source}, {source}, <<>>)
             found  == {k \in DOMAIN levels : target \in levels[k]}
         IN  IF found = {}
             THEN {[exc |-> "NetworkXNoPath", path |-> <<>>]}
             ELSE {[exc |-> "", path |-> p] :
                      p \in PathsTo(g, levels, CHOOSE k \in found : TRUE, target)}

(***************************************************************************)
(* calculate_dacus_number(artist_name, G): the set of outcomes of a call.  *)
(* kind "value" is (dacus_number, path), kind "None" is (None, None), any  *)
(* other kind is the exception that leaves the function.                   *)
(***************************************************************************)
Value(d, p) == [kind |-> "value", dacus_number |-> d, path |-> p]
NoneNone == [kind |-> "None", dacus_number |-> 0, path |-> <<>>]
Raise(e) == [kind |-> e, dacus_number |-> 0, path |-> <<>>]

\* dacus_number = len(path)
calculate_dacus_number_len(name, g) ==
    IF name \notin g.nodes THEN {NoneNone}
    ELSE IF name = LucyDacus THEN {Value(0, <<LucyDacus>>)}
    ELSE {IF o.exc = "" THEN Value(Len(o.path), o.path)
          ELSE IF o.exc = "NetworkXNoPath" THEN NoneNone
          ELSE Raise(o.exc) : o \in shortest_path(g, name, LucyDacus)}

\* return 0, [] for the reference artist
calculate_dacus_number_nopath(name, g) ==
    IF name \notin g.nodes THEN {NoneNone}
    ELSE IF name = LucyDacus THEN {Value(0, <<>>)}
    ELSE {IF o.exc = "" THEN Value(Len(o.path) - 1, o.path)
          ELSE IF o.exc = "NetworkXNoPath" THEN NoneNone
          ELSE Raise(o.exc) : o \in shortest_path(g, name, LucyDacus)}

\* the test for the reference artist before the membership test
calculate_dacus_number_reference_first(name, g) ==
    IF name = LucyDacus THEN {Value(0, <<LucyDacus>>)}
    ELSE IF name \notin g.nodes THEN {NoneNone}
    ELSE {IF o.exc = "" THEN Value(Len(o.path) - 1, o.path)
          ELSE IF o.exc = "NetworkXNoPath" THEN NoneNone
          ELSE Raise(o.exc) : o \in shortest_path(g, name, LucyDacus)}

\* without the membership test: the search is asked for any name
calculate_dacus_number_unguarded(name, g) ==
    IF name = LucyDacus /\ name \in g.nodes THEN {Value(0, <<LucyDacus>>)}
    ELSE {IF o.exc = "" THEN Value(Len(o.path) - 1, o.path)
          ELSE IF o.exc = "NetworkXNoPath" THEN NoneNone
          ELSE Raise(o.exc) : o \in shortest_path(g, name, LucyDacus)}

calculate_dacus_number(name, g) ==
    IF name \notin g.nodes THEN {NoneNone}
    ELSE IF name = LucyDacus THEN {Value(0, <<LucyDacus>>)}
    ELSE {IF o.exc = "" THEN Value(Len(o.path) - 1, o.path)
          ELSE IF o.exc = "NetworkXNoPath" THEN NoneNone
          ELSE Raise(o.exc) : o \in shortest_path(g, name, LucyDacus)}

(***************************************************************************)
(* Input tables.                                                           *)
(***************************************************************************)
RatingColumns == {"playlist_origin", "Artist Name(s)"}
SimilarityColumns == {"Artist", "Similar Artists"}

SeqsUpTo(S, n) == UNION {[1..k -> S] : k \in 0..n}

\* the tables of at most n rows over the given columns, the cells of
\* column c drawn from cells[c]; a table without columns has no rows
Tables(columns, cells, n) ==
    LET any  == UNION {cells[c] : c \in columns}
        rows == {r \in [columns -> any] : \A c \in columns : r[c] \in cells[c]}
    IN  {Table(columns, t) : t \in IF columns = {} THEN {<<>>} ELSE SeqsUpTo(rows, n)}

\* names as the upstream pipeline writes them: a comma and a space between
\* the artists of a list
Join(a, b) == a \o <<Comma, Space>> \o b
ArtistA == Str("A")
ArtistB == Str("B")

CleanCells == [c \in RatingColumns \cup SimilarityColumns |->
    CASE c = "playlist_origin" -> {df_liked, df_nmf}
      [] c = "Artist Name(s)"  -> {LucyDacus, ArtistA}
      [] c = "Artist"          -> {LucyDacus, ArtistA, ArtistB}
      [] c = "Similar Artists" -> {NaN, ArtistA, ArtistB, Join(ArtistA, ArtistB)}]

\* the names a visitor can ask for
Queries == {LucyDacus, ArtistA, ArtistB, Str("lucy dacus")}

(***************************************************************************)
(* The page "6 Degrees of Lucy Dacus": main builds the graph from the two  *)
(* tables, dacus_game_page asks for the selected artist.                   *)
(***************************************************************************)
Unasked == [kind |-> "unasked", dacus_number |-> 0, path |-> <<>>]

\* no figure drawn
NoFigure == [raised |-> "", edge_trace |-> <<>>, node_trace |-> <<>>, path_trace |-> <<>>]

\* nothing on disk is looked at, nothing cached
NoFiles == [predictions |-> {}, liked_similar |-> {}]
NoCache == [file_dates |-> {}, predictions |-> {}, liked_similar |-> {}]

\* the page has not run
\* no feedback, no session at work, nothing nuked, the newest week shown
NoFeedback == [admin |-> <<>>, public |-> <<>>]
NoSessions == <<>>
NoNuked == [file |-> <<>>, cache |-> {}, session_state |-> {}, shown |-> {}]
NoArchive == [file_dates |-> <<>>, current_archive_index |-> 0, show_all_archives |-> FALSE]
NoEvent == [name |-> "none"]
SiteIdle ==
    /\ feedback = NoFeedback /\ sessions = NoSessions /\ nuked = NoNuked
    /\ archive = NoArchive /\ event = NoEvent

PageNotRun ==
    /\ artist_name = EmptyStr
    /\ result = Unasked
    /\ search_term = EmptyStr
    /\ message = "none"
    /\ subgraph = EmptyGraph
    /\ fig = NoFigure

Loaded ==
    /\ G = EmptyGraph
    /\ pc = "loaded"
    /\ PageNotRun
    /\ SiteIdle
    /\ csv = NoFiles
    /\ cache = NoCache
    /\ as_of = NoFiles

Init ==
    /\ df \in Tables(RatingColumns, CleanCells, MaxRatingRows)
    /\ df_liked_similar \in Tables(SimilarityColumns, CleanCells, MaxSimRows)
    /\ include_nmf \in BOOLEAN
    /\ Loaded

BuildGraph ==
    /\ pc = "loaded"
    /\ LET out == build_graph(df, df_liked_similar, include_nmf)
       IN  /\ G' = out.graph
           /\ pc' = IF out.raised = "" THEN "built" ELSE "build_raised"
    /\ UNCHANGED <<df, df_liked_similar, include_nmf, artist_name, result, store, page, site>>

Query(name) ==
    /\ pc = "built"
    /\ \E out \in calculate_dacus_number(name, G) :
          /\ result' = out
          /\ pc' = IF out.kind \in {"value", "None"} THEN "answered" ELSE "query_raised"
    /\ artist_name' = name
    /\ UNCHANGED <<df, df_liked_similar, include_nmf, G, store, page, site>>

Next ==
    \/ BuildGraph
    \/ \E name \in Queries : Query(name)

Spec == Init /\ [][Next]_vars

(***************************************************************************)
(* build_graph on tables as they may come out of a CSV file: columns may   *)
(* be absent, cells missing or empty, lists written without the space      *)
(* after the comma or with one before it.                                  *)
(***************************************************************************)
ArtistC == Str("C")

RawCells == [c \in RatingColumns \cup SimilarityColumns |->
    CASE c = "playlist_origin" -> {df_liked, df_nmf, NaN}
      [] c = "Artist Name(s)"  -> {NaN, ArtistB \o <<Space, Comma>> \o ArtistA}
      [] c = "Artist"          -> {ArtistA, NaN}
      [] c = "Similar Artists" -> {NaN, EmptyStr, ArtistB, Join(ArtistB, ArtistC),
                                   ArtistB \o <<Comma>> \o ArtistC}]

InitTables ==
    /\ \E columns \in SUBSET RatingColumns :
          df \in Tables(columns, RawCells, MaxRatingRows)
    /\ \E columns \in SUBSET SimilarityColumns :
          df_liked_similar \in Tables(columns, RawCells, MaxSimRows)
    /\ include_nmf \in BOOLEAN
    /\ Loaded

NextTables == BuildGraph

SpecTables == InitTables /\ [][NextTables]_vars

(***************************************************************************)
(* Properties of calculate_dacus_number.                                   *)
(***************************************************************************)
Asked == pc \in {"answered", "query_raised"}

\* the walks of n edges in g
Walks(g, n) ==
    {p \in [1..(n + 1) -> g.nodes] : \A i \in 1..n : {p[i], p[i + 1]} \in g.edges}

\* a walk of n edges leads from a to b
Joined(g, a, b, n) == \E p \in Walks(g, n) : p[1] = a /\ p[n + 1] = b

\* a and b are nodes of g and some path leads from a to b
Connected(g, a, b) == \E n \in 0..(Cardinality(g.nodes) - 1) : Joined(g, a, b, n)

\* C1: a non-null answer (d, p) for artist a has len(p) = d + 1, p[0] = a,
\* p[-1] = "Lucy Dacus", and consecutive elements of p joined by an edge of G.
C1_PathMatchesDistance ==
    (Asked /\ result.kind = "value") =>
        LET p == result.path
        IN  /\ Len(p) = result.dacus_number + 1
            /\ p[1] = artist_name
            /\ p[Len(p)] = LucyDacus
            /\ \A i \in 1..(Len(p) - 1) : {p[i], p[i + 1]} \in G.edges

C1_Witness ==
    /\ pc = "answered" /\ result.kind = "value" /\ result.dacus_number = 2
    /\ Cardinality(G.edges) = 3

\* C2: for an artist connected to "Lucy Dacus" the answer is a distance, some
\* path has that many edges and no path has fewer.
C2_DistanceIsMinimal ==
    (Asked /\ Connected(G, artist_name, LucyDacus)) =>
        /\ result.kind = "value"
        /\ Joined(G, artist_name, LucyDacus, result.dacus_number)
        /\ \A n \in 0..(result.dacus_number - 1) : ~Joined(G, artist_name, LucyDacus, n)

\* the artist has a direct edge to the reference and a detour of two edges
C2_Witness ==
    /\ pc = "answered" /\ result.kind = "value" /\ result.dacus_number = 1
    /\ Joined(G, artist_name, LucyDacus, 2)

\* C3 as stated: for every graph, whatever its node set, the answer for
\* "Lucy Dacus" is distance 0 and the path ["Lucy Dacus"].
C3_Original ==
    (Asked /\ artist_name = LucyDacus) => result = Value(0, <<LucyDacus>>)

\* C3 amended: for every graph that has the node "Lucy Dacus" the answer for
\* "Lucy Dacus" is distance 0 and the path ["Lucy Dacus"]; for a graph that
\* lacks the node it is (None, None).
C3_ReferenceIsZero ==
    (Asked /\ artist_name = LucyDacus) =>
        /\ LucyDacus \in G.nodes => result = Value(0, <<LucyDacus>>)
        /\ LucyDacus \notin G.nodes => result = NoneNone

C3_Witness ==
    /\ pc = "answered" /\ artist_name = LucyDacus /\ LucyDacus \in G.nodes
    /\ result = Value(0, <<LucyDacus>>)
    /\ neighbors(G, LucyDacus) # {}

\* C4: for a name that is not a node of G the answer is (None, None); the
\* membership test is an exact, case-sensitive match.
C4_AbsentIsNone ==
    (Asked /\ artist_name \notin G.nodes) => (pc = "answered" /\ result = NoneNone)

\* "lucy dacus" is asked for in a graph that holds "Lucy Dacus"
C4_Witness ==
    /\ pc = "answered" /\ artist_name = Str("lucy dacus") /\ LucyDacus \in G.nodes
    /\ result = NoneNone

\* C5 as stated: for a node of G that has no path to "Lucy Dacus" the answer
\* is (None, None), and no error is raised.
C5_Claim ==
    (Asked /\ artist_name \in G.nodes /\ ~Connected(G, artist_name, LucyDacus)) =>
        (pc = "answered" /\ result = NoneNone)

(***************************************************************************)
(* Properties of build_graph.                                              *)
(***************************************************************************)
Returned == pc # "loaded"

\* C6: from a ratings table and a similarity table without rows, with either
\* value of the flag, build_graph returns a graph without nodes and without
\* edges, and does not fail.
C6_EmptyTablesEmptyGraph ==
    (Returned /\ df.rows = <<>> /\ df_liked_similar.rows = <<>>) =>
        (pc = "built" /\ G.nodes = {} /\ G.edges = {})

\* both tables have their columns and no rows
C6_Witness ==
    /\ pc = "built" /\ include_nmf
    /\ df = Table(RatingColumns, <<>>)
    /\ df_liked_similar = Table(SimilarityColumns, <<>>)
    /\ G = EmptyGraph

\* a column of the four is absent, or a cell of them is missing
Malformed ==
    \/ df.columns # RatingColumns
    \/ df_liked_similar.columns # SimilarityColumns
    \/ \E i \in DOMAIN df.rows : \E c \in df.columns : df.rows[i][c] = NaN
    \/ \E i \in DOMAIN df_liked_similar.rows :
          \E c \in df_liked_similar.columns : df_liked_similar.rows[i][c] = NaN

\* C7 as stated: when a column is absent or a cell is missing, build_graph
\* returns a graph without raising, and the part that depends on an absent
\* column contributes no nodes and no edges.
C7_Claim ==
    (Returned /\ Malformed) =>
        /\ pc = "built"
        /\ ~HasRatingColumns(df) =>
              G = build_graph(Table(RatingColumns, <<>>), df_liked_similar,
                              include_nmf).graph
        /\ "Similar Artists" \notin df_liked_similar.columns =>
              G = build_graph(df, Table(SimilarityColumns, <<>>), include_nmf).graph
        /\ "Artist" \notin df_liked_similar.columns => G.edges = {}

\* the names of a comma-separated list, whatever the spacing
ParsedNames(cell) == {Strip(piece) : piece \in Range(Split(cell, <<Comma>>))}

\* C8 as stated: the edges are exactly the pairs {subject, s}, s a parsed name
\* of the row's Similar Artists list, and every such s is the node added for
\* that name, whatever the spacing around the commas.
C8_Claim ==
    (pc = "built" /\ df_liked_similar.columns = SimilarityColumns) =>
        LET rows == df_liked_similar.rows
            listed == {i \in DOMAIN rows : IsStr(rows[i]["Similar Artists"])}
        IN  /\ G.edges = UNION {{{rows[i]["Artist"], s} :
                                   s \in ParsedNames(rows[i]["Similar Artists"])} :
                                i \in listed}
            /\ \A e \in G.edges : \E s \in e : s \in similar_artists_liked(df_liked_similar)

\* C9 as stated: a similarity row whose Similar Artists field is empty or
\* missing adds no edge and no node, and build_graph does not raise: the
\* graph is the one built from the table without such rows.
C9_Claim ==
    LET Listed(row) == row["Similar Artists"] \notin {NaN, EmptyStr}
        rows == df_liked_similar.rows
    IN  (/\ Returned
         /\ "Similar Artists" \in df_liked_similar.columns
         /\ \E i \in DOMAIN rows : ~Listed(rows[i]))
        =>
        /\ pc = "built"
        /\ G = build_graph(df, Table(df_liked_similar.columns, SelectSeq(rows, Listed)),
                           include_nmf).graph

\* the graph of the same tables under the given value of the flag
GraphWith(flag) ==
    IF flag = include_nmf THEN G ELSE build_graph(df, df_liked_similar, flag).graph

\* the answers for the asked artist under the given value of the flag
AnswersWith(flag) ==
    IF flag = include_nmf THEN {result}
    ELSE calculate_dacus_number(artist_name, GraphWith(flag))

SameNumber(o1, o2) == o1.kind = o2.kind /\ o1.dacus_number = o2.dacus_number

\* the flag adds nodes and nothing else
C10_FlagAddsNodesOnly ==
    /\ GraphWith(TRUE).edges = GraphWith(FALSE).edges
    /\ GraphWith(FALSE).nodes \subseteq GraphWith(TRUE).nodes

\* C10 as stated: the two flag values give the same edges, the true value a
\* superset of the nodes, and every Dacus number is the same under both.
C10_Original ==
    /\ pc = "built" => C10_FlagAddsNodesOnly
    /\ Asked =>
          /\ C10_FlagAddsNodesOnly
          /\ \A t \in AnswersWith(TRUE) : \A f \in AnswersWith(FALSE) : SameNumber(t, f)

\* C10 amended: the two flag values give the same edges, the true value a
\* superset of the nodes; an artist who has a Dacus number under one value of
\* the flag has the same number under the other, except "Lucy Dacus": when
\* only the flag makes her a node, her number is 0 with it and null without.
C10_FlagKeepsNumbers ==
    /\ pc = "built" => C10_FlagAddsNodesOnly
    /\ Asked =>
          /\ C10_FlagAddsNodesOnly
          /\ \A t \in AnswersWith(TRUE) : \A f \in AnswersWith(FALSE) :
                (t.kind = "value" \/ f.kind = "value") =>
                    \/ SameNumber(t, f)
                    \/ /\ artist_name = LucyDacus
                       /\ LucyDacus \notin GraphWith(FALSE).nodes
                       /\ t = Value(0, <<LucyDacus>>)
                       /\ f = NoneNone

\* the flag has added a node, and the asked artist has a number
C10_Witness ==
    /\ pc = "answered" /\ include_nmf
    /\ GraphWith(FALSE).nodes # G.nodes
    /\ result.kind = "value" /\ result.dacus_number >= 1

(***************************************************************************)
(* build_graph on tables in which one artist has several origins: the      *)
(* four origins of the ratings table, similarity rows whose subject is or  *)
(* is not rated, a list written with a space before the comma.             *)
(***************************************************************************)
TagCells == [c \in RatingColumns \cup SimilarityColumns |->
    CASE c = "playlist_origin" -> {df_liked, df_fav_albums, df_nmf, df_not_liked}
      [] c = "Artist Name(s)"  -> {ArtistA, Join(ArtistA, ArtistB)}
      [] c = "Artist"          -> {ArtistA, ArtistC}
      [] c = "Similar Artists" -> {ArtistA, ArtistB,
                                   ArtistB \o <<Space, Comma, Space>> \o ArtistC}]

InitTags ==
    /\ df \in Tables(RatingColumns, TagCells, MaxTagRatingRows)
    /\ df_liked_similar \in Tables(SimilarityColumns, TagCells, MaxTagSimRows)
    /\ include_nmf \in BOOLEAN
    /\ Loaded

NextTags == BuildGraph

SpecTags == InitTags /\ [][NextTags]_vars

(***************************************************************************)
(* Properties of the nodes and their tags.                                 *)
(***************************************************************************)
\* the artists whose ratings-table origin is df_nmf or df_not_liked
Unconnected == nmf_artists(df) \cup not_liked_artists(df)

\* the names the edge loop uses as endpoints
EdgeNames ==
    LET rows == df_liked_similar.rows
    IN  UNION {{rows[i]["Artist"]} \cup Range(Split(rows[i]["Similar Artists"], EdgeSeparator)) :
                  i \in {j \in DOMAIN rows : IsStr(rows[j]["Similar Artists"])}}

\* C11 as stated: with include_nmf = true every artist of origin df_nmf or
\* df_not_liked is a node of degree 0.
C11_Original ==
    (pc = "built" /\ include_nmf) =>
        \A a \in Unconnected : a \in G.nodes /\ neighbors(G, a) = {}

\* C11 amended: with include_nmf = true every artist of origin df_nmf or
\* df_not_liked is a node, and build_graph adds no edge on its account: it has
\* degree 0 unless its name is the Artist or a listed name of a similarity
\* row, and then its edges are those the similarity rows give it.
C11_NoEdgeFromOrigin ==
    (pc = "built" /\ include_nmf) =>
        \A a \in Unconnected :
            /\ a \in G.nodes
            /\ a \notin EdgeNames => neighbors(G, a) = {}
            /\ neighbors(G, a) \subseteq EdgeNames

\* an NMF artist is isolated in a graph that has edges and a liked artist
C11_Witness ==
    /\ pc = "built" /\ include_nmf
    /\ G.edges # {}
    /\ \E a \in nmf_artists(df) : a \notin EdgeNames /\ neighbors(G, a) = {}
    /\ liked_artists(df) # {}

Tags == {"liked", "similar_liked", "nmf", "not_liked"}

\* C12 as stated: every node of the graph, the subject of a similarity row
\* and every edge endpoint included, carries a tag of liked, similar_liked,
\* nmf, not_liked.
C12_Claim == pc = "built" => \A n \in G.nodes : G.type[n] \in Tags

\* the category that adds the name last, in the order of build_graph
LastCategory(n) ==
    IF include_nmf /\ n \in not_liked_artists(df) THEN "not_liked"
    ELSE IF include_nmf /\ n \in nmf_artists(df) THEN "nmf"
    ELSE IF n \in similar_artists_liked(df_liked_similar) THEN "similar_liked"
    ELSE "liked"

Categorised ==
    liked_artists(df) \cup similar_artists_liked(df_liked_similar)
        \cup (IF include_nmf THEN Unconnected ELSE {})

\* C13: a name that falls under one or several categories is one node, tagged
\* with the category that added it last in the order liked, similar_liked,
\* nmf, not_liked.
C13_LastCategoryWins ==
    pc = "built" =>
        \A n \in Categorised : n \in G.nodes /\ G.type[n] = LastCategory(n)

\* one name is liked, listed as similar and of origin df_nmf
C13_Witness ==
    /\ pc = "built" /\ include_nmf
    /\ \E n \in liked_artists(df) \cap similar_artists_liked(df_liked_similar)
                \cap nmf_artists(df) : G.type[n] = "nmf"

\* C14 as stated: no node name has leading or trailing whitespace.
C14_Claim == pc = "built" => \A n \in G.nodes : IsStr(n) => Strip(n) = n

(***************************************************************************)
(* The tables of the worked example: "Lucy Dacus" liked, and the rows      *)
(* ("Lucy Dacus", "Julien Baker, Phoebe Bridgers"), ("Julien Baker",       *)
(* "boygenius") of the similarity table, with the tables that have some of *)
(* these rows or repeat them.                                              *)
(***************************************************************************)
JulienBaker == Str("Julien Baker")
PhoebeBridgers == Str("Phoebe Bridgers")
boygenius == Str("boygenius")
Mitski == Str("Mitski")

ExampleCells == [c \in RatingColumns \cup SimilarityColumns |->
    CASE c = "playlist_origin" -> {df_liked}
      [] c = "Artist Name(s)"  -> {LucyDacus}
      [] c = "Artist"          -> {LucyDacus, JulienBaker}
      [] c = "Similar Artists" -> {Join(JulienBaker, PhoebeBridgers), boygenius}]

ExampleQueries == {boygenius, Mitski, JulienBaker, LucyDacus}

InitExample ==
    /\ df \in Tables(RatingColumns, ExampleCells, MaxRatingRows)
    /\ df_liked_similar \in Tables(SimilarityColumns, ExampleCells, MaxSimRows)
    /\ include_nmf \in BOOLEAN
    /\ Loaded

NextExample ==
    \/ BuildGraph
    \/ \E name \in ExampleQueries : Query(name)

SpecExample == InitExample /\ [][NextExample]_vars

ExampleRow(artist, similar) ==
    [c \in SimilarityColumns |-> IF c = "Artist" THEN artist ELSE similar]

\* the tables of the example are loaded
ExampleLoaded ==
    /\ liked_artists(df) = {LucyDacus}
    /\ df_liked_similar = Table(SimilarityColumns,
            <<ExampleRow(LucyDacus, Join(JulienBaker, PhoebeBridgers)),
              ExampleRow(JulienBaker, boygenius)>>)

\* C16: with the tables of the example, the answer for "boygenius" is
\* (2, ["boygenius", "Julien Baker", "Lucy Dacus"]) and the answer for
\* "Mitski" is (None, None).
C16_Example ==
    (ExampleLoaded /\ pc \in {"answered", "query_raised"}) =>
        /\ artist_name = boygenius =>
              result = Value(2, <<boygenius, JulienBaker, LucyDacus>>)
        /\ artist_name = Mitski => result = NoneNone

\* "boygenius" has been asked for on the example
C16_Witness ==
    /\ ExampleLoaded /\ pc = "answered" /\ artist_name = boygenius
    /\ result.kind = "value"
    /\ G.nodes = {LucyDacus, JulienBaker, PhoebeBridgers, boygenius}

(***************************************************************************)
(* The page served from the files: the loaders of main are memoised by     *)
(* st.cache_data, the files change outside the program, and the sidebar    *)
(* button clears the memo and reruns the script.  csv holds each file as   *)
(* the table pd.read_csv makes of it (no element: no such file), cache the *)
(* memo of each loader, as_of the files as they were at the last load.     *)
(***************************************************************************)
RatingRow(origin, names) ==
    [c \in RatingColumns |-> IF c = "playlist_origin" THEN origin ELSE names]

PredictionFiles ==
    {Table(RatingColumns, <<RatingRow(df_liked, LucyDacus)>>),
     Table(RatingColumns, <<RatingRow(df_nmf, ArtistA)>>),
     Table({"Artist Name(s)"}, <<[c \in {"Artist Name(s)"} |-> LucyDacus]>>)}

SimilarityFiles ==
    {Table(SimilarityColumns, <<ExampleRow(LucyDacus, ArtistA)>>),
     Table(SimilarityColumns, <<ExampleRow(LucyDacus, ArtistB)>>)}

\* the directory contents: each file is there or not
Files ==
    [predictions : {{}} \cup {{f} : f \in PredictionFiles},
     liked_similar : {{}} \cup {{f} : f \in SimilarityFiles}]

\* predictions_df[c] = value when the column is missing
WithDefault(table, c, value) ==
    IF c \in table.columns THEN table
    ELSE Table(table.columns \cup {c},
               [i \in DOMAIN table.rows |->
                   [k \in table.columns \cup {c} |->
                       IF k = c THEN value ELSE table.rows[i][k]]])

\* the body of get_all_prediction_files, as the file main takes from its
\* result: file_dates[0][0], or None for the empty list
get_all_prediction_files(files) ==
    IF files.predictions = {} THEN "None" ELSE "latest"

\* the body of load_predictions: None (no element) without a file, else the
\* table with its default columns; the rows of a file are distinct albums
load_predictions(files) ==
    {WithDefault(WithDefault(f, "playlist_origin", Str("unknown")),
                 "Artist Name(s)", Str("Unknown Artist")) : f \in files.predictions}

\* the body of load_liked_similar: safe_load_csv with its default columns
load_liked_similar(files) ==
    IF files.liked_similar = {} THEN Table(SimilarityColumns, <<>>)
    ELSE CHOOSE f \in files.liked_similar : TRUE

\* pd.read_csv of a file the memoised list names and the directory lacks
ReadRaises(memo, files) ==
    LET latest_file == IF memo.file_dates # {} THEN CHOOSE f \in memo.file_dates : TRUE
                       ELSE get_all_prediction_files(files)
    IN  /\ \A e \in memo.predictions : e.key # latest_file
        /\ latest_file = "latest"
        /\ files.predictions = {}

\* the memo after the three loader calls of a run that started with memo
Memoised(memo, files) ==
    LET file_dates == IF memo.file_dates # {} THEN memo.file_dates
                      ELSE {get_all_prediction_files(files)}
        latest_file == CHOOSE f \in file_dates : TRUE
        liked_similar == IF memo.liked_similar # {} THEN memo.liked_similar
                         ELSE {load_liked_similar(files)}
        hit == \E e \in memo.predictions : e.key = latest_file
    IN  [file_dates |-> file_dates,
         liked_similar |-> liked_similar,
         predictions |-> IF hit \/ ReadRaises(memo, files) THEN memo.predictions
                         ELSE memo.predictions \cup
                              {[key |-> latest_file, value |-> load_predictions(files)]}]

NoTable == Table({}, <<>>)

\* a run of main on the Dacus page that starts with the given memo
Run(memo) ==
    LET after == Memoised(memo, csv)
        latest_file == CHOOSE f \in after.file_dates : TRUE
        predictions_data == (CHOOSE e \in after.predictions : e.key = latest_file).value
        similar == CHOOSE t \in after.liked_similar : TRUE
    IN  /\ cache' = after
        /\ as_of' = csv
        /\ df_liked_similar' = similar
        /\ include_nmf' = TRUE
        /\ IF ReadRaises(memo, csv)
           THEN df' = NoTable /\ G' = EmptyGraph /\ pc' = "load_raised"
           ELSE IF predictions_data = {}
           THEN df' = NoTable /\ G' = EmptyGraph /\ pc' = "no_predictions"
           ELSE LET ratings == CHOOSE t \in predictions_data : TRUE
                    built == build_graph(ratings, similar, TRUE)
                IN  /\ df' = ratings
                    /\ G' = built.graph
                    /\ pc' = IF built.raised = "" THEN "built" ELSE "build_raised"
        /\ UNCHANGED <<csv, artist_name, result, page, site>>

\* the script runs for the page "6 Degrees of Lucy Dacus"
PageLoad == Run(cache)

\* the button "Clear Cache and Refresh Data": clear the memo and rerun
ClearCache == Run(NoCache)

\* a file is written, replaced or removed outside the program
ChangeCsv ==
    /\ \E files \in Files : files # csv /\ csv' = files
    /\ UNCHANGED <<df, df_liked_similar, include_nmf, G, pc, artist_name, result,
                   cache, as_of, page, site>>

InitCache ==
    /\ csv \in Files
    /\ cache = NoCache
    /\ as_of = NoFiles
    /\ df = NoTable /\ df_liked_similar = NoTable /\ include_nmf = TRUE
    /\ G = EmptyGraph /\ pc = "loaded" /\ PageNotRun /\ SiteIdle

NextCache ==
    \/ PageLoad
    \/ ClearCache
    \/ ChangeCsv

SpecCache == InitCache /\ [][NextCache]_vars

\* the page has been served without an error
Served == pc \in {"built", "no_predictions"}

\* C17 as stated: the graph of a served page is the graph of the files as
\* they were at that load, never of a table read before a change.
C17_Claim ==
    Served =>
        /\ df_liked_similar = load_liked_similar(as_of)
        /\ pc = "built" =>
              /\ load_predictions(as_of) = {df}
              /\ G = build_graph(df, df_liked_similar, TRUE).graph
        /\ pc = "no_predictions" => load_predictions(as_of) = {}

(***************************************************************************)
(* dacus_game_page: the search box, the selection, the query, and the      *)
(* figure of the path with its context.  The names and the search terms of *)
(* this specification are chosen so that one holds the other as a run of   *)
(* characters exactly when it holds it as a run of symbols.                *)
(***************************************************************************)
ArtistX == Str("X")
ArtistQ == Str("Q")

\* str.lower(), symbol by symbol
LowerSymbol(w) ==
    CASE w = "Lucy Dacus"      -> "lucy dacus"
      [] w = "LUCY DACUS"      -> "lucy dacus"
      [] w = "Julien Baker"    -> "julien baker"
      [] w = "Phoebe Bridgers" -> "phoebe bridgers"
      [] w = "Mitski"          -> "mitski"
      [] w = "Boygenius"       -> "boygenius"
      [] w = "X"               -> "x"
      [] w = "Q"               -> "q"
      [] OTHER                 -> w

lower(s) == [i \in DOMAIN s |-> LowerSymbol(s[i])]

\* needle in haystack
Contains(haystack, needle) ==
    \E i \in 1..(Len(haystack) - Len(needle) + 1) :
        SubSeq(haystack, i, i + Len(needle) - 1) = needle

popular_artists ==
    {PhoebeBridgers, Str("Boygenius"), JulienBaker, Str("Japanese Breakfast"), Mitski,
     Str("Big Thief"), Str("The National"), Str("Snail Mail"), Str("Soccer Mommy")}

SelectAnArtist == Str("Select an artist...")

\* len(filtered_artists) > 10
MaxSuggestions == 10

\* list(G.neighbors(node))[:3]
MaxNeighbors == 3

\* the artists matching the search term
filtered_artists(g, term) == {artist \in g.nodes : Contains(lower(artist), lower(term))}

\* every popular artist offered, in the graph or not
Options_all_popular(g, term) ==
    IF term # EmptyStr
    THEN IF Cardinality(filtered_artists(g, term)) > MaxSuggestions
         THEN {shown \in SUBSET filtered_artists(g, term) :
                   Cardinality(shown) = MaxSuggestions}
         ELSE {filtered_artists(g, term)}
    ELSE {popular_artists \cup {SelectAnArtist}}

\* the options of the selectbox: the matches, ten of them when there are
\* more (which ten, the sort order of the names decides: left open), or the
\* popular artists of the graph and the placeholder
Options(g, term) ==
    IF term # EmptyStr
    THEN IF Cardinality(filtered_artists(g, term)) > MaxSuggestions
         THEN {shown \in SUBSET filtered_artists(g, term) :
                   Cardinality(shown) = MaxSuggestions}
         ELSE {filtered_artists(g, term)}
    ELSE {{a \in popular_artists : a \in g.nodes} \cup {SelectAnArtist}}

\* the (u, v) of the add_edge calls of build_graph, in their order
RECURSIVE EdgeCalls(_)
EdgeCalls(rows) ==
    IF rows = <<>> THEN <<>>
    ELSE LET row == Head(rows)
             similar == IF IsStr(row["Similar Artists"])
                        THEN Split(row["Similar Artists"], EdgeSeparator)
                        ELSE <<>>
         IN  [j \in DOMAIN similar |-> <<row["Artist"], similar[j]>>]
                \o EdgeCalls(Tail(rows))

\* list(G.neighbors(node)): the neighbours in the order their edges were added
RECURSIVE Adjacency(_, _, _)
Adjacency(calls, node, found) ==
    IF calls = <<>> THEN found
    ELSE LET call == Head(calls)
             other == IF call[1] = node THEN {call[2]}
                      ELSE IF call[2] = node THEN {call[1]}
                      ELSE {}
         IN  Adjacency(Tail(calls), node,
                       IF other = {} \/ other \subseteq Range(found) THEN found
                       ELSE Append(found, CHOOSE v \in other : TRUE))

neighbors_list(similarity, node) ==
    IF SimilarityColumns \subseteq similarity.columns
    THEN Adjacency(EdgeCalls(similarity.rows), node, <<>>)
    ELSE <<>>

FirstOf(s, n) == SubSeq(s, 1, IF Len(s) < n THEN Len(s) ELSE n)

\* G.subgraph(nodes): the graph induced by the nodes of G among them
InducedSubgraph(g, nodes) ==
    [nodes |-> g.nodes \cap nodes,
     type  |-> [n \in g.nodes \cap nodes |-> g.type[n]],
     edges |-> {e \in g.edges : e \subseteq nodes}]

\* four neighbours of each path node
all_viz_nodes_four(similarity, path) ==
    Range(path) \cup UNION {Range(FirstOf(neighbors_list(similarity, path[i]),
                                          MaxNeighbors + 1)) : i \in DOMAIN path}

\* path_nodes.union(context_nodes)
all_viz_nodes(similarity, path) ==
    Range(path) \cup UNION {Range(FirstOf(neighbors_list(similarity, path[i]),
                                          MaxNeighbors)) : i \in DOMAIN path}

\* the elements of a set in an order of iteration
RECURSIVE Enumerated(_)
Enumerated(S) ==
    IF S = {} THEN <<>>
    ELSE LET x == CHOOSE y \in S : TRUE IN <<x>> \o Enumerated(S \ {x})

\* the path drawn as a closed walk: zip(path, path[1:] + path[:1])
visualize_artist_network_closed(g, path) ==
    IF ~(Range(path) \subseteq g.nodes)
    THEN [raised |-> "KeyError", edge_trace |-> <<>>, node_trace |-> <<>>,
          path_trace |-> <<>>]
    ELSE [raised |-> "",
          edge_trace |-> Enumerated(g.edges),
          node_trace |-> Enumerated(g.nodes),
          path_trace |-> [i \in 1..Len(path) |->
                             {path[i], path[(i % Len(path)) + 1]}]]

\* the figure: a grey line for each edge of the graph, a labelled point for
\* each node, a red line for each pair of consecutive path nodes; pos[n]
\* raises KeyError for a path node that is not in the graph
visualize_artist_network(g, path) ==
    IF ~(Range(path) \subseteq g.nodes)
    THEN [raised |-> "KeyError", edge_trace |-> <<>>, node_trace |-> <<>>,
          path_trace |-> <<>>]
    ELSE [raised |-> "",
          edge_trace |-> Enumerated(g.edges),
          node_trace |-> Enumerated(g.nodes),
          path_trace |-> [i \in 1..(Len(path) - 1) |-> {path[i], path[i + 1]}]]

PageCells == [c \in RatingColumns \cup SimilarityColumns |->
    CASE c = "playlist_origin" -> {df_liked}
      [] c = "Artist Name(s)"  -> {LucyDacus, Mitski}
      [] c = "Artist"          -> {LucyDacus, ArtistX}
      [] c = "Similar Artists" -> {ArtistQ, JulienBaker,
                                   Join(Join(ArtistX, ArtistQ), Join(JulienBaker, Mitski)),
                                   Join(Join(ArtistQ, JulienBaker), Join(Mitski, PhoebeBridgers))}]

\* what a visitor types into the search box
SearchTerms == {EmptyStr, Str("x"), Str("Q"), Str("z"), Str("LUCY DACUS")}

\* the page ends before the query
Ends(term, text) ==
    /\ search_term' = term
    /\ message' = text
    /\ pc' = "shown"
    /\ UNCHANGED <<artist_name, result, subgraph, fig>>

\* dacus_number, path = calculate_dacus_number(selected_artist, G) and what
\* the page shows of it
Asks(term, selected_artist) ==
    \E out \in calculate_dacus_number(selected_artist, G) :
        /\ search_term' = term
        /\ artist_name' = selected_artist
        /\ result' = out
        /\ IF out.kind = "value"
           THEN LET viz == InducedSubgraph(G, all_viz_nodes(df_liked_similar, out.path))
                    drawn == visualize_artist_network(viz, out.path)
                IN  /\ subgraph' = viz
                    /\ fig' = drawn
                    /\ message' = "success"
                    /\ pc' = IF drawn.raised = "" THEN "shown" ELSE "page_raised"
           ELSE /\ UNCHANGED <<subgraph, fig>>
                /\ message' = IF out.kind = "None" THEN "no_path_found" ELSE "none"
                /\ pc' = IF out.kind = "None" THEN "shown" ELSE "page_raised"

\* one run of dacus_game_page(G): the visitor's search term and selection
DacusGamePage ==
    /\ pc = "built"
    /\ \E term \in SearchTerms :
          IF term # EmptyStr /\ filtered_artists(G, term) = {}
          THEN Ends(term, "no_artists_found")
          ELSE \E options \in Options(G, term) : \E selected_artist \in options :
                  IF term = EmptyStr /\ selected_artist = SelectAnArtist
                  THEN Ends(term, "select_an_artist")
                  ELSE Asks(term, selected_artist)
    /\ UNCHANGED <<df, df_liked_similar, include_nmf, G, store, site>>

InitPage ==
    /\ df \in Tables(RatingColumns, PageCells, MaxRatingRows)
    /\ df_liked_similar \in Tables(SimilarityColumns, PageCells, MaxSimRows)
    /\ include_nmf = TRUE
    /\ Loaded

NextPage ==
    \/ BuildGraph
    \/ DacusGamePage

SpecPage == InitPage /\ [][NextPage]_vars

(***************************************************************************)
(* Properties of the page.                                                 *)
(***************************************************************************)
\* the page has drawn the figure of a path
Drawn == pc = "shown" /\ message = "success"

\* the pairs of consecutive nodes of a path
PathEdges(path) == {{path[i], path[i + 1]} : i \in 1..(Len(path) - 1)}

\* C18: the graph handed to the figure is the subgraph of G induced by the
\* path nodes and at most 3 neighbours of each path node: it holds every
\* path node and path edge, every other node of it is a neighbour of a path
\* node, and it has at most 4 * len(path) nodes.
C18_SubgraphOfPath ==
    Drawn =>
        LET path == result.path
            others == subgraph.nodes \ Range(path)
        IN  /\ subgraph = InducedSubgraph(G, subgraph.nodes)
            /\ Range(path) \subseteq subgraph.nodes
            /\ PathEdges(path) \subseteq subgraph.edges
            /\ \A n \in others : \E i \in DOMAIN path : n \in neighbors(G, path[i])
            /\ \A i \in DOMAIN path :
                  Cardinality({n \in others : \A j \in DOMAIN path :
                                   n \in neighbors(G, path[j]) => j = i}) <= 3
            /\ Cardinality(subgraph.nodes) <= 4 * Len(path)

\* a path node has more than three neighbours, and one of them is left out
C18_Witness ==
    /\ Drawn
    /\ \E i \in DOMAIN result.path :
          /\ Cardinality(neighbors(G, result.path[i]) \ {result.path[i]}) > 3
          /\ ~(neighbors(G, result.path[i]) \subseteq subgraph.nodes)
    /\ Cardinality(subgraph.nodes) = 4 * Len(result.path)

\* C19: the figure has one plain line for each edge of the subgraph, one
\* labelled point for each node, and len(path) - 1 highlighted lines, each on
\* an edge that is also drawn plain; it does not fail for a path whose nodes
\* are all in the subgraph.
C19_FigureOfSubgraph ==
    (pc \in {"shown", "page_raised"} /\ message = "success") =>
        /\ Range(result.path) \subseteq subgraph.nodes => fig.raised = ""
        /\ fig.raised = "" =>
              /\ Len(fig.edge_trace) = Cardinality(subgraph.edges)
              /\ Range(fig.edge_trace) = subgraph.edges
              /\ Len(fig.node_trace) = Cardinality(subgraph.nodes)
              /\ Range(fig.node_trace) = subgraph.nodes
              /\ Len(fig.path_trace) = Len(result.path) - 1
              /\ \A i \in DOMAIN fig.path_trace :
                    /\ fig.path_trace[i] = {result.path[i], result.path[i + 1]}
                    /\ fig.path_trace[i] \in Range(fig.edge_trace)

\* a path of two edges is drawn in a subgraph that has further edges
C19_Witness ==
    /\ Drawn
    /\ Len(fig.path_trace) = 2
    /\ Len(fig.edge_trace) > 2
    /\ Len(fig.node_trace) > 3

\* C20: calculate_dacus_number is called only with a node of G; a search that
\* matches nothing ends with "no artists found", which is not "no path
\* found"; every option that reaches the query is a node of G.
C20_QueryIsANode ==
    pc \in {"shown", "page_raised"} =>
        /\ result # Unasked => artist_name \in G.nodes
        /\ (search_term # EmptyStr /\ filtered_artists(G, search_term) = {}) =>
              (message = "no_artists_found" /\ result = Unasked)
        /\ message = "no_path_found" =>
              (artist_name \in G.nodes /\ result = NoneNone)
        /\ message = "no_artists_found" => filtered_artists(G, search_term) = {}

\* a popular artist has been selected without a search term and queried
C20_Witness ==
    /\ pc = "shown" /\ search_term = EmptyStr
    /\ artist_name \in popular_artists
    /\ result # Unasked
    /\ \E a \in popular_artists : a \notin G.nodes

(***************************************************************************)
(* The feedback stores.  A store is the CSV file as it is on disk: the     *)
(* sequence of its records, each cell the text between the quotes; a file  *)
(* that does not exist and a file of the header alone both hold no record  *)
(* and are read alike.  pd.read_csv gives the cells their types column by  *)
(* column, to_csv writes each cell back as text.                           *)
(***************************************************************************)
FeedbackColumns == {"Album Name", "Artist", "Feedback", "Review"}
PublicColumns == {"Album Name", "Artist", "Feedback", "Username", "Timestamp", "Review"}

\* some of the texts pd.read_csv takes for a missing value, quoted or not
NaTexts == {EmptyStr, Str("NA"), Str("N/A"), Str("NaN"), Str("nan"),
            Str("None"), Str("null"), Str("NULL"), Str("n/a")}

\* the texts of this model that pd.read_csv takes for an integer
Numerals == {Str("30")}

IntCell(text) == <<"<int64>">> \o text
FloatCell(text) == <<"<float64>">> \o text
IsIntCell(cell) == cell # <<>> /\ cell[1] = "<int64>"
IsFloatCell(cell) == cell # <<>> /\ cell[1] = "<float64>"

\* str(float(n)) for the numerals of this model
FloatText(text) == IF text = Str("30") THEN Str("30.0") ELSE text

\* the cells of column c of a file as pd.read_csv types them: a missing
\* value marker is NaN; a column whose other cells are all integers is
\* int64, or float64 if a value is missing; any other column keeps its texts
ReadCell(rows, c, i) ==
    LET present == {j \in DOMAIN rows : rows[j][c] \notin NaTexts}
        numeric == present # {} /\ \A j \in present : rows[j][c] \in Numerals
    IN  IF rows[i][c] \in NaTexts THEN NaN
        ELSE IF ~numeric THEN rows[i][c]
        ELSE IF present = DOMAIN rows THEN IntCell(rows[i][c])
        ELSE FloatCell(rows[i][c])

\* pd.read_csv(feedback_file, quoting=1), and the empty table of the
\* loaders for a missing file
read_csv(rows, columns) ==
    Table(columns, [i \in DOMAIN rows |-> [c \in columns |-> ReadCell(rows, c, i)]])

\* the text to_csv writes for a cell
WriteCell(cell) ==
    IF cell = NaN THEN EmptyStr
    ELSE IF IsIntCell(cell) THEN Tail(cell)
    ELSE IF IsFloatCell(cell) THEN FloatText(Tail(cell))
    ELSE cell

\* combined_feedback.to_csv(feedback_file, index=False, quoting=1)
to_csv(table) ==
    [i \in DOMAIN table.rows |-> [c \in table.columns |-> WriteCell(table.rows[i][c])]]

\* bool(value) of a string or of a float: only the empty string is false
Truthy(value) == value # EmptyStr

\* datetime.now().strftime("%Y-%m-%d %H:%M:%S")
Now == Str("2025-01-03 12:00:00")

FeedbackRecord(album_name, artist, given, review) ==
    [c \in FeedbackColumns |->
        CASE c = "Album Name" -> album_name
          [] c = "Artist"     -> artist
          [] c = "Feedback"   -> given
          [] c = "Review"     -> IF Truthy(review) THEN review ELSE EmptyStr]

PublicRecord(album_name, artist, given, username, review) ==
    [c \in PublicColumns |->
        CASE c = "Album Name" -> album_name
          [] c = "Artist"     -> artist
          [] c = "Feedback"   -> given
          [] c = "Username"   -> username
          [] c = "Timestamp"  -> Now
          [] c = "Review"     -> IF Truthy(review) THEN review ELSE EmptyStr]

\* the rows of a table for the given album and artist
RowsOf(table, album_name, artist) ==
    LET Same(row) == row["Album Name"] = album_name /\ row["Artist"] = artist
    IN  SelectSeq(table.rows, Same)

\* the rows of a table for every other album and artist
RowsBeside(table, album_name, artist) ==
    LET Other(row) == ~(row["Album Name"] = album_name /\ row["Artist"] = artist)
    IN  SelectSeq(table.rows, Other)

\* save_feedback: the admin records after the call
save_feedback(records, album_name, artist, given, review) ==
    LET existing_feedback == read_csv(records, FeedbackColumns)
    IN  to_csv(Table(FeedbackColumns,
                     RowsBeside(existing_feedback, album_name, artist)
                        \o <<FeedbackRecord(album_name, artist, given, review)>>))

\* save_public_feedback: the public records after the call
save_public_feedback(records, album_name, artist, given, username, review) ==
    LET existing_feedback == read_csv(records, PublicColumns)
    IN  to_csv(Table(PublicColumns,
                     existing_feedback.rows
                        \o <<PublicRecord(album_name, artist, given, username, review)>>))

\* load_feedback() and load_public_feedback()
load_feedback(stores) == read_csv(stores.admin, FeedbackColumns)
load_public_feedback(stores) == read_csv(stores.public, PublicColumns)

\* get_public_feedback_stats(album_name, artist)
get_public_feedback_stats(stores, album_name, artist) ==
    LET album_feedback == RowsOf(load_public_feedback(stores), album_name, artist)
        Count(given) == Cardinality({i \in DOMAIN album_feedback :
                                        album_feedback[i]["Feedback"] = given})
    IN  IF album_feedback = <<>>
        THEN [like |-> 0, mid |-> 0, dislike |-> 0, total |-> 0]
        ELSE [like |-> Count(Str("like")), mid |-> Count(Str("mid")),
              dislike |-> Count(Str("dislike")), total |-> Len(album_feedback)]

(***************************************************************************)
(* The rating buttons of display_album_predictions.                        *)
(***************************************************************************)
MaxAdminRecords == 3
MaxPublicRecords == 2

Album(album_name, artist) == [album_name |-> album_name, artist |-> artist]

MikeS == Str("Mike S")
Anonymous == Str("Anonymous")
Buttons == {Str("like"), Str("mid"), Str("dislike")}

\* the graph page has not run and no file of it is there
GraphIdle ==
    /\ df = NoTable /\ df_liked_similar = NoTable /\ include_nmf = TRUE
    /\ G = EmptyGraph /\ pc = "loaded" /\ PageNotRun
    /\ csv = NoFiles /\ cache = NoCache /\ as_of = NoFiles

\* what a press leaves alone; each save ends with st.cache_data.clear()
PressFrame ==
    /\ cache' = NoCache
    /\ UNCHANGED <<df, df_liked_similar, include_nmf, G, pc, artist_name, result,
                   csv, as_of, page, sessions, nuked, archive>>

Pressed(name, row, given, typed, review) ==
    [name |-> name, album_name |-> row.album_name, artist |-> row.artist,
     given |-> given, username |-> typed, review |-> review, before |-> feedback]

\* the review the admin branch saves: review or existing_review
ReviewToSave(stores, row, review) ==
    LET existing_feedback == RowsOf(load_feedback(stores), row.album_name, row.artist)
        existing_review == IF existing_feedback = <<>> THEN EmptyStr
                           ELSE existing_feedback[1]["Review"]
    IN  IF Truthy(review) THEN review ELSE existing_review

\* username.strip() if username else "Anonymous"
EnteredName(typed) == IF typed # EmptyStr THEN Strip(typed) ELSE Anonymous

\* a press of Like, Mid or Dislike under an album, with the name and the
\* review typed above the buttons
RatingPress(albums, names, reviews) ==
    \E row \in albums, typed \in names, review \in reviews, given \in Buttons :
        /\ IF EnteredName(typed) = MikeS
           THEN LET saved == save_feedback(feedback.admin, row.album_name, row.artist,
                                           given, ReviewToSave(feedback, row, review))
                IN  /\ Len(saved) <= MaxAdminRecords
                    /\ feedback' = [feedback EXCEPT !.admin = saved]
                    /\ event' = Pressed("save_feedback", row, given, typed, review)
           ELSE LET saved == save_public_feedback(feedback.public, row.album_name,
                                                  row.artist, given,
                                                  EnteredName(typed), review)
                IN  /\ Len(saved) <= MaxPublicRecords
                    /\ feedback' = [feedback EXCEPT !.public = saved]
                    /\ event' = Pressed("save_public_feedback", row, given, typed, review)
        /\ PressFrame

\* the admin rates albums, one of them named by a number
AdminAlbums == {Album(Str("30"), Str("Adele")), Album(Str("Album"), Str("Adele"))}
AdminReviews == {EmptyStr, Str("great")}

InitAdmin == GraphIdle /\ SiteIdle

NextAdmin == RatingPress(AdminAlbums, {MikeS}, AdminReviews)

SpecAdmin == InitAdmin /\ [][NextAdmin]_vars

(***************************************************************************)
(* Properties of the feedback stores.                                      *)
(***************************************************************************)
\* the records of a store for the album and artist, and the others
RecordsOf(records, album_name, artist) ==
    LET Same(r) == r["Album Name"] = album_name /\ r["Artist"] = artist
    IN  SelectSeq(records, Same)

RecordsBeside(records, album_name, artist) ==
    LET Other(r) == ~(r["Album Name"] = album_name /\ r["Artist"] = artist)
    IN  SelectSeq(records, Other)

\* C21 as stated: the admin store holds at most one record for each album
\* and artist; after save_feedback(album, artist, f, r) the record of that
\* pair has Feedback f and the records of the other pairs are as before.
C21_Claim ==
    /\ \A i, j \in DOMAIN feedback.admin :
          (/\ feedback.admin[i]["Album Name"] = feedback.admin[j]["Album Name"]
           /\ feedback.admin[i]["Artist"] = feedback.admin[j]["Artist"]) => i = j
    /\ event.name = "save_feedback" =>
          /\ \E r \in Range(RecordsOf(feedback.admin, event.album_name, event.artist)) :
                r["Feedback"] = event.given
          /\ RecordsBeside(feedback.admin, event.album_name, event.artist)
                = RecordsBeside(event.before.admin, event.album_name, event.artist)

(***************************************************************************)
(* The public store: visitors press the rating buttons, the admin works    *)
(* in the Manage Reviews tab of the Album Fixer.                           *)
(***************************************************************************)
\* the tab fails before it shows a button: the Username column has no .str
\* accessor when it is not of strings, and a mask with a missing value in
\* it cannot select rows
ManageReviewsRaises(table) ==
    /\ table.rows # <<>>
    /\ \E i \in DOMAIN table.rows : ~IsStr(table.rows[i]["Username"])

\* the tab shows its delete buttons
ReviewsShown(table) == table.rows # <<>> /\ ~ManageReviewsRaises(table)

Without(rows, idx) == [i \in 1..(Len(rows) - 1) |-> IF i < idx THEN rows[i] ELSE rows[i + 1]]

Managed(name) == [name |-> name, before |-> feedback]

ManageFrame ==
    UNCHANGED <<df, df_liked_similar, include_nmf, G, pc, artist_name, result,
                csv, as_of, page, sessions, nuked, archive>>

\* the tab is opened and fails
ManageReviewsFails ==
    /\ ManageReviewsRaises(load_public_feedback(feedback))
    /\ event' = Managed("manage_reviews_raised")
    /\ UNCHANGED <<feedback, cache>>
    /\ ManageFrame

\* the button "Delete" of one review
DeleteReview ==
    LET public_feedback_df == load_public_feedback(feedback)
    IN  /\ ReviewsShown(public_feedback_df)
        /\ \E idx \in DOMAIN public_feedback_df.rows :
              feedback' = [feedback EXCEPT !.public =
                  to_csv(Table(PublicColumns, Without(public_feedback_df.rows, idx)))]
        /\ event' = Managed("delete_review")
        /\ cache' = NoCache
        /\ ManageFrame

\* the button "Delete All Anonymous Reviews"
DeleteAnonymous ==
    LET public_feedback_df == load_public_feedback(feedback)
        Named(row) == row["Username"] # Anonymous
    IN  /\ ReviewsShown(public_feedback_df)
        /\ feedback' = [feedback EXCEPT !.public =
              to_csv(Table(PublicColumns, SelectSeq(public_feedback_df.rows, Named)))]
        /\ event' = Managed("delete_anonymous")
        /\ cache' = NoCache
        /\ ManageFrame

\* the run after a press of "Delete All Reviews": the warning and the
\* confirmation button are shown, the confirmation button reads false
DeleteAllReviews ==
    /\ ReviewsShown(load_public_feedback(feedback))
    /\ event' = Managed("delete_all_reviews")
    /\ UNCHANGED <<feedback, cache>>
    /\ ManageFrame

\* the run after a press of "Yes, Delete ALL Reviews", which the run before
\* has shown: "Delete All Reviews" reads false, its block is not entered
ConfirmDeleteAll ==
    /\ event.name = "delete_all_reviews"
    /\ ReviewsShown(load_public_feedback(feedback))
    /\ event' = Managed("confirm_delete_all")
    /\ UNCHANGED <<feedback, cache>>
    /\ ManageFrame

PublicAlbums == {Album(Str("30"), Str("Adele")), Album(Str("Album"), Str("Adele"))}
PublicNames == {EmptyStr, <<Space>>}
PublicReviews == {EmptyStr, Str("N/A")}

InitPublic == GraphIdle /\ SiteIdle

NextPublic ==
    \/ RatingPress(PublicAlbums, PublicNames, PublicReviews)
    \/ ManageReviewsFails
    \/ DeleteReview
    \/ DeleteAnonymous
    \/ DeleteAllReviews
    \/ ConfirmDeleteAll

SpecPublic == InitPublic /\ [][NextPublic]_vars

\* C22 as stated: after a call of save_public_feedback the public store is
\* the store before the call, record for record, followed by one record of
\* the given album, artist, feedback, username and review.
C22_Claim ==
    event.name = "save_public_feedback" =>
        feedback.public = event.before.public \o
            <<PublicRecord(event.album_name, event.artist, event.given,
                           EnteredName(event.username), event.review)>>

\* C25 as stated: the counts of get_public_feedback_stats add up to the
\* total, the total is the number of public records of the album and
\* artist, and the counts are all zero exactly when it has no record.
C25_Claim ==
    \A row \in PublicAlbums :
        LET stats == get_public_feedback_stats(feedback, row.album_name, row.artist)
            records == RecordsOf(feedback.public, row.album_name, row.artist)
        IN  /\ stats.like + stats.mid + stats.dislike = stats.total
            /\ stats.total = Len(records)
            /\ (stats = [like |-> 0, mid |-> 0, dislike |-> 0, total |-> 0])
                  <=> (records = <<>>)

\* C29 as stated: the run of a press of "Delete All Reviews" deletes
\* nothing, and the run of the press of "Yes, Delete ALL Reviews" that
\* follows it leaves the public store empty.
C29_Claim ==
    /\ event.name = "delete_all_reviews" => feedback = event.before
    /\ event.name = "confirm_delete_all" => feedback.public = <<>>

(***************************************************************************)
(* One album rated under several names: none, a blank, the admin's name,   *)
(* the admin's name followed by a blank.                                   *)
(***************************************************************************)
PressAlbums == {Album(Str("Album"), Str("Adele"))}
PressNames == {EmptyStr, <<Space>>, MikeS, MikeS \o <<Space>>}
PressReviews == {EmptyStr, Str("great")}

InitPress == GraphIdle /\ SiteIdle

NextPress == RatingPress(PressAlbums, PressNames, PressReviews)

SpecPress == InitPress /\ [][NextPress]_vars

\* the text of the Review of the first record of the album and artist
StoredReview(records, album_name, artist) ==
    IF RecordsOf(records, album_name, artist) = <<>> THEN EmptyStr
    ELSE RecordsOf(records, album_name, artist)[1]["Review"]

\* C23 as stated: a press changes one store.  With the name "Mike S" typed
\* exactly, the admin store is written, with the typed review or else the
\* review stored before, and the public store is as before; with any other
\* name typed, or none, the public store gains one record, whose username
\* is not empty, and the admin store is as before.
C23_Claim ==
    event.name \in {"save_feedback", "save_public_feedback"} =>
        IF event.username = MikeS
        THEN /\ feedback.public = event.before.public
             /\ StoredReview(feedback.admin, event.album_name, event.artist)
                   = IF event.review # EmptyStr THEN event.review
                     ELSE StoredReview(event.before.admin, event.album_name, event.artist)
             /\ \E r \in Range(feedback.admin) : r["Feedback"] = event.given
        ELSE /\ feedback.admin = event.before.admin
             /\ Len(feedback.public) = Len(event.before.public) + 1
             /\ feedback.public[Len(feedback.public)]["Username"] # EmptyStr

(***************************************************************************)
(* Two visitor sessions, each running save_public_feedback once.  Streamlit *)
(* runs the script of each session in a thread of its own, and the function *)
(* takes no lock: between the read of the file and the write of the file of *)
(* one session, the other session may read and write.                       *)
(***************************************************************************)
Visitors == {1, 2}
VisitorNames == {Anonymous, Str("Bob")}

Visiting(at, new_feedback, combined_feedback) ==
    [pc |-> at, new_feedback |-> new_feedback, combined_feedback |-> combined_feedback]

SessionFrame ==
    UNCHANGED <<df, df_liked_similar, include_nmf, G, pc, artist_name, result,
                csv, as_of, page, nuked, archive, event>>

\* the press: new_feedback = pd.DataFrame({...})
BuildRecord(s) ==
    /\ sessions[s].pc = "idle"
    /\ \E row \in PressAlbums, username \in VisitorNames, given \in Buttons :
          sessions' = [sessions EXCEPT ![s] =
              Visiting("built",
                       PublicRecord(row.album_name, row.artist, given, username, EmptyStr),
                       <<>>)]
    /\ UNCHANGED <<feedback, cache>>
    /\ SessionFrame

\* existing_feedback = pd.read_csv(...); combined_feedback = pd.concat([...])
ReadFile(s) ==
    /\ sessions[s].pc = "built"
    /\ sessions' = [sessions EXCEPT ![s] =
          Visiting("combined", sessions[s].new_feedback,
                   read_csv(feedback.public, PublicColumns).rows
                      \o <<sessions[s].new_feedback>>)]
    /\ UNCHANGED <<feedback, cache>>
    /\ SessionFrame

\* combined_feedback.to_csv(...); st.cache_data.clear()
WriteFile(s) ==
    /\ sessions[s].pc = "combined"
    /\ feedback' = [feedback EXCEPT !.public =
          to_csv(Table(PublicColumns, sessions[s].combined_feedback))]
    /\ cache' = NoCache
    /\ sessions' = [sessions EXCEPT ![s].pc = "returned"]
    /\ SessionFrame

InitSessions ==
    /\ GraphIdle
    /\ feedback = NoFeedback /\ nuked = NoNuked /\ archive = NoArchive /\ event = NoEvent
    /\ sessions = [s \in Visitors |-> Visiting("idle", <<>>, <<>>)]

NextSessions == \E s \in Visitors : BuildRecord(s) \/ ReadFile(s) \/ WriteFile(s)

SpecSessions == InitSessions /\ [][NextSessions]_vars

\* C24 as stated: once both calls of save_public_feedback have returned,
\* the public store holds the new record of each of the two sessions.
C24_Claim ==
    (\A s \in Visitors : sessions[s].pc = "returned") =>
        /\ Len(feedback.public) = Cardinality(Visitors)
        /\ \A s \in Visitors :
              to_csv(Table(PublicColumns, <<sessions[s].new_feedback>>))[1]
                  \in Range(feedback.public)

(***************************************************************************)
(* Prediction files and their dates.  A file is named by the date text in  *)
(* front of "_Album_Recommendations.csv", MM-DD-YY; the directory and the  *)
(* rest of the name are the same for all files.                            *)
(***************************************************************************)
Digits == <<"0", "1", "2", "3", "4", "5", "6", "7", "8", "9">>
Hyphen == "-"

TwoDigits(n) == <<Digits[(n \div 10) + 1], Digits[(n % 10) + 1]>>

\* date_obj.strftime('%m-%d-%y') of a date
DateStr(month, day, year) ==
    TwoDigits(month) \o <<Hyphen>> \o TwoDigits(day) \o <<Hyphen>> \o TwoDigits(year % 100)

DigitValue(c) == (CHOOSE i \in DOMAIN Digits : Digits[i] = c) - 1

\* the code point of a character of a date text
Ord(c) == IF c = Hyphen THEN 45 ELSE 48 + DigitValue(c)

\* the text has the form dd-dd-dd
IsDateStr(text) ==
    /\ Len(text) = 8
    /\ \A i \in {3, 6} : text[i] = Hyphen
    /\ \A i \in {1, 2, 4, 5, 7, 8} : text[i] \in Range(Digits)

NumberAt(text, i) == 10 * DigitValue(text[i]) + DigitValue(text[i + 1])

\* datetime.strptime(date_str, '%m-%d-%y'): %y below 69 is 20yy, else 19yy
strptime(text) ==
    [year  |-> IF NumberAt(text, 7) < 69 THEN 2000 + NumberAt(text, 7)
               ELSE 1900 + NumberAt(text, 7),
     month |-> NumberAt(text, 1),
     day   |-> NumberAt(text, 4)]

\* the order of datetime objects
DateBefore(a, b) ==
    \/ a.year < b.year
    \/ a.year = b.year /\ a.month < b.month
    \/ a.year = b.year /\ a.month = b.month /\ a.day < b.day

\* the order of Python strings: by code point, a proper prefix first
RECURSIVE StrBefore(_, _)
StrBefore(a, b) ==
    IF b = <<>> THEN FALSE
    ELSE IF a = <<>> THEN TRUE
    ELSE IF Ord(Head(a)) # Ord(Head(b)) THEN Ord(Head(a)) < Ord(Head(b))
    ELSE StrBefore(Tail(a), Tail(b))

\* the files a predictions directory may hold
PredictionNames ==
    {DateStr(11, 22, 2024), DateStr(11, 29, 2024), DateStr(12, 27, 2024),
     DateStr(1, 3, 2025), DateStr(1, 10, 2025), DateStr(2, 7, 2025)}

\* file_dates.sort(key=lambda x: x[1], reverse=True) of files of distinct dates
RECURSIVE NewestFirst(_)
NewestFirst(names) ==
    IF names = {} THEN <<>>
    ELSE LET newest == CHOOSE f \in names :
                           \A g \in names \ {f} : DateBefore(strptime(g), strptime(f))
         IN  <<[file |-> newest, date_obj |-> strptime(newest)]>>
                \o NewestFirst(names \ {newest})

\* the list get_all_prediction_files returns for the files of a directory
FileDates(prediction_files) == NewestFirst({f \in prediction_files : IsDateStr(f)})

(***************************************************************************)
(* Archive navigation on the Weekly Predictions page.  The session holds   *)
(* current_archive_index, counted from 0, and show_all_archives; the       *)
(* buttons are drawn only when there is more than one file.                *)
(***************************************************************************)
ArchiveFrame ==
    UNCHANGED <<df, df_liked_similar, include_nmf, G, pc, artist_name, result,
                store, page, feedback, sessions, nuked>>

\* the press and the session as it was before this press and the one before
Navigated(name) ==
    [name |-> name, before |-> archive, last |-> event.name,
     earlier |-> IF event.name = "none" THEN archive ELSE event.before]

NavigationDrawn(session) == Len(session.file_dates) > 1

OlderOffered_unguarded(session) == NavigationDrawn(session)

\* if st.session_state.current_archive_index < len(file_dates) - 1
OlderOffered(session) ==
    /\ NavigationDrawn(session)
    /\ session.current_archive_index < Len(session.file_dates) - 1

\* if st.session_state.current_archive_index > 0
NewerOffered(session) ==
    /\ NavigationDrawn(session)
    /\ session.current_archive_index > 0

Older ==
    /\ OlderOffered(archive)
    /\ archive' = [archive EXCEPT !.current_archive_index = @ + 1]
    /\ event' = Navigated("older")
    /\ ArchiveFrame

Newer ==
    /\ NewerOffered(archive)
    /\ archive' = [archive EXCEPT !.current_archive_index = @ - 1]
    /\ event' = Navigated("newer")
    /\ ArchiveFrame

ViewAllArchives ==
    /\ NavigationDrawn(archive)
    /\ archive' = [archive EXCEPT !.show_all_archives = TRUE]
    /\ event' = Navigated("view_all_archives")
    /\ ArchiveFrame

\* the button of the i-th date of the list of all archives
ArchiveDate ==
    /\ NavigationDrawn(archive)
    /\ archive.show_all_archives
    /\ \E i \in 0 .. Len(archive.file_dates) - 1 :
          archive' = [archive EXCEPT !.current_archive_index = i,
                                     !.show_all_archives = FALSE]
    /\ event' = Navigated("archive_date")
    /\ ArchiveFrame

HideArchives ==
    /\ NavigationDrawn(archive)
    /\ archive.show_all_archives
    /\ archive' = [archive EXCEPT !.show_all_archives = FALSE]
    /\ event' = Navigated("hide_archives")
    /\ ArchiveFrame

InitArchive ==
    /\ GraphIdle
    /\ feedback = NoFeedback /\ sessions = NoSessions /\ nuked = NoNuked
    /\ event = NoEvent
    /\ \E prediction_files \in SUBSET PredictionNames :
          archive = [file_dates |-> FileDates(prediction_files),
                     current_archive_index |-> 0,
                     show_all_archives |-> FALSE]

NextArchive ==
    \/ Older
    \/ Newer
    \/ ViewAllArchives
    \/ ArchiveDate
    \/ HideArchives

SpecArchive == InitArchive /\ [][NextArchive]_vars

\* the file of the release week the session shows
CurrentFile(session) == session.file_dates[session.current_archive_index + 1].file

\* C26: with a list of one or more prediction files, newest first, the
\* index stays in 0 .. len(file_dates) - 1 after every press; Older is
\* pressed only below the last index and adds one, Newer is pressed only
\* above 0 and takes one off, and Newer pressed after Older shows the
\* release week shown before the two presses.
C26_IndexInRange ==
    /\ archive.file_dates # <<>> =>
          archive.current_archive_index \in 0 .. Len(archive.file_dates) - 1
    /\ event.name = "older" =>
          /\ event.before.current_archive_index < Len(archive.file_dates) - 1
          /\ archive.current_archive_index = event.before.current_archive_index + 1
    /\ event.name = "newer" =>
          /\ event.before.current_archive_index > 0
          /\ archive.current_archive_index = event.before.current_archive_index - 1
    /\ event.name = "newer" /\ event.last = "older" =>
          /\ archive.current_archive_index = event.earlier.current_archive_index
          /\ CurrentFile(archive) = CurrentFile(event.earlier)

\* Newer pressed after Older, at the last but one of three files
C26_Witness ==
    /\ event.name = "newer" /\ event.last = "older"
    /\ Len(archive.file_dates) = 3
    /\ archive.current_archive_index = 1

(***************************************************************************)
(* Nuked albums.  data/nuked_albums.csv is written by the Nuke tab of the  *)
(* Album Fixer from the list the session keeps, and read by the Weekly     *)
(* Predictions page through load_nuked_albums, which st.cache_data         *)
(* memoises.                                                               *)
(***************************************************************************)
NukedColumns == {"Artist", "Album Name", "Reason"}

MaxNukedRecords == 2

\* the albums of the predictions file of the week
WeeklyAlbums ==
    {Album(Str("Live"), Str("Adele")),
     Album(Str("Deluxe"), Str("Bob")),
     Album(Str("Deluxe"), Str("Adele"))}

\* keywords = ["Live", "Deluxe", "Reissue", "Anniversary"], as whole names
SuggestedAlbums == {row \in WeeklyAlbums : row.album_name \in {Str("Live"), Str("Deluxe")}}

new_nuke(row, reason) ==
    [c \in NukedColumns |->
        CASE c = "Artist"     -> row.artist
          [] c = "Album Name" -> row.album_name
          [] c = "Reason"     -> reason]

\* load_nuked_albums(): safe_load_csv of the file, memoised
load_nuked_albums(state) ==
    IF state.cache # {} THEN CHOOSE t \in state.cache : TRUE
    ELSE read_csv(state.file, NukedColumns)

\* the rows of df the Weekly Predictions page keeps
FilterNuked(albums, nuked_albums_df) ==
    IF nuked_albums_df.rows = <<>> THEN albums
    ELSE {row \in albums :
             ~(/\ row.artist \in {r["Artist"] : r \in Range(nuked_albums_df.rows)}
               /\ row.album_name \in {r["Album Name"] : r \in Range(nuked_albums_df.rows)})}

NukeFrame ==
    UNCHANGED <<df, df_liked_similar, include_nmf, G, pc, artist_name, result,
                store, page, feedback, sessions, archive>>

\* a render of the Weekly Predictions page
WeeklyPredictions ==
    LET nuked_albums_df == load_nuked_albums(nuked)
    IN  /\ nuked' = [nuked EXCEPT !.cache = {nuked_albums_df},
                                  !.shown = FilterNuked(WeeklyAlbums, nuked_albums_df)]
        /\ event' = [name |-> "weekly_predictions", nuked_albums_df |-> nuked_albums_df]
        /\ NukeFrame

\* st.session_state.nuked_albums as the Nuke tab has it when it is drawn
SessionNuked(state) ==
    IF state.session_state # {} THEN CHOOSE l \in state.session_state : TRUE
    ELSE read_csv(state.file, NukedColumns).rows

\* a render of the Nuke tab without a press
NukeTab ==
    /\ nuked.session_state = {}
    /\ nuked' = [nuked EXCEPT !.session_state = {SessionNuked(nuked)}]
    /\ event' = [name |-> "nuke_tab"]
    /\ NukeFrame

\* append new_nuke to the session's list and write the list to the file
Nuke(name, row, reason) ==
    LET nuked_albums == SessionNuked(nuked) \o <<new_nuke(row, reason)>>
    IN  /\ Len(nuked_albums) <= MaxNukedRecords
        /\ nuked' = [nuked EXCEPT !.session_state = {nuked_albums},
                                  !.file = to_csv(Table(NukedColumns, nuked_albums))]
        /\ event' = [name |-> name, album_name |-> row.album_name, artist |-> row.artist]
        /\ NukeFrame

already_nuked(state, row) ==
    \E r \in Range(SessionNuked(state)) :
        r["Artist"] = row.artist /\ r["Album Name"] = row.album_name

\* the button "Nuke <artist> - <album>" of a suggestion
NukeSuggested ==
    \E row \in SuggestedAlbums :
        /\ ~already_nuked(nuked, row)
        /\ Nuke("suggested_nuke", row, Str("Keyword match"))

\* the button "Nuke This Album" with no reason typed
NukeManual ==
    \E row \in WeeklyAlbums : Nuke("nuke_button", row, Str("Manual nuke"))

\* st.cache_data.clear(), as a save of feedback or the sidebar button calls it
CacheCleared ==
    /\ nuked.cache # {}
    /\ nuked' = [nuked EXCEPT !.cache = {}]
    /\ event' = [name |-> "cache_cleared"]
    /\ NukeFrame

InitNuke ==
    /\ GraphIdle
    /\ feedback = NoFeedback /\ sessions = NoSessions /\ archive = NoArchive
    /\ nuked = NoNuked /\ event = NoEvent

NextNuke ==
    \/ WeeklyPredictions
    \/ NukeTab
    \/ NukeSuggested
    \/ NukeManual
    \/ CacheCleared

SpecNuke == InitNuke /\ [][NextNuke]_vars

\* the album is a record of the list
IsNuked(nuked_albums_df, row) ==
    \E r \in Range(nuked_albums_df.rows) :
        r["Artist"] = row.artist /\ r["Album Name"] = row.album_name

\* C27 as stated: the page hides an album exactly when its artist and album
\* name together are a record of the nuked list the page loaded.
C27_Claim ==
    event.name = "weekly_predictions" =>
        \A row \in WeeklyAlbums :
            row \notin nuked.shown <=> IsNuked(event.nuked_albums_df, row)

\* C28 as stated: a render of the Weekly Predictions page uses the nuked
\* list as the file has it, and shows no album that is nuked in the file.
C28_Claim ==
    event.name = "weekly_predictions" =>
        /\ event.nuked_albums_df = read_csv(nuked.file, NukedColumns)
        /\ \A row \in nuked.shown : ~IsNuked(read_csv(nuked.file, NukedColumns), row)

(***************************************************************************)
(* The file load_predictions() takes when it is called without a path, as  *)
(* the Nuke tab calls it, beside the list get_all_prediction_files makes   *)
(* of the same directory.                                                  *)
(***************************************************************************)
\* max(prediction_files): the greatest name in the order of strings
max(prediction_files) ==
    CHOOSE f \in prediction_files : \A g \in prediction_files \ {f} : StrBefore(g, f)

\* file_path of load_predictions(None): None without a file
DefaultFilePath(prediction_files) ==
    IF prediction_files = {} THEN <<>> ELSE max(prediction_files)

LatestFrame ==
    UNCHANGED <<df, df_liked_similar, include_nmf, G, pc, artist_name, result,
                store, page, feedback, sessions, nuked>>

\* predictions_data = load_predictions()
LoadPredictions ==
    /\ event.name = "none"
    /\ event' = [name |-> "load_predictions",
                 file_path |-> DefaultFilePath(csv.predictions)]
    /\ UNCHANGED archive
    /\ LatestFrame

\* file_dates = get_all_prediction_files()
GetAllPredictionFiles ==
    /\ archive.file_dates = <<>>
    /\ csv.predictions # {}
    /\ archive' = [archive EXCEPT !.file_dates = FileDates(csv.predictions)]
    /\ UNCHANGED event
    /\ LatestFrame

\* the directory holds any of the files; nothing is memoised or loaded yet
InitLatest ==
    /\ df = NoTable /\ df_liked_similar = NoTable /\ include_nmf = TRUE
    /\ G = EmptyGraph /\ pc = "loaded" /\ PageNotRun
    /\ csv \in [predictions : SUBSET PredictionNames, liked_similar : {{}}]
    /\ cache = NoCache /\ as_of = NoFiles
    /\ SiteIdle

NextLatest ==
    \/ LoadPredictions
    \/ GetAllPredictionFiles

SpecLatest == InitLatest /\ [][NextLatest]_vars

\* C30 as stated: the file load_predictions() takes is the first file of
\* the list of get_all_prediction_files, the file of the latest date.
C30_Claim ==
    event.name = "load_predictions" /\ archive.file_dates # <<>> =>
        event.file_path = archive.file_dates[1].file

====
